---- MODULE Spec2Model ----
(***************************************************************************)
(* Model of guessing_game/src/main.rs: a number guessing game that draws   *)
(* a secret number, then loops: prompt, read one line of standard input,   *)
(* trim and parse it as u32, echo it and compare it with the secret.       *)
(*                                                                         *)
(* Text is modelled as a sequence of one-character strings.  A line of     *)
(* standard output is a sequence whose first element is the literal part   *)
(* of the println! and whose remaining elements are the formatted digits.  *)
(***************************************************************************)
EXTENDS Integers, Sequences, FiniteSets, TLC

VARIABLES
    pc,             \* position of main: the statement about to run
    secret_number,  \* let secret_number (0 before the draw)
    guess,          \* let mut guess: String
    guess_num,      \* let guess: u32, the shadowing binding
    read_result,    \* the io::Result<usize> returned by read_line
    stdin_line,     \* the text read_line consumed from standard input last
    lines_read,     \* number of read_line calls that have returned
    lines_consumed, \* number of lines taken off standard input
    stdout,         \* lines printed on standard output
    stderr          \* lines printed on standard error

vars == <<pc, secret_number, guess, guess_num, read_result, stdin_line,
          lines_read, lines_consumed, stdout, stderr>>

----------------------------------------------------------------------------
\* Bounds and program constants

\* number of read_line calls the environment answers; afterwards the
\* program stays blocked in read_line
MaxReads == 3

\* gen_range(0..=100)
SecretMin_Zero == 1 - 1

\* gen_range(1..=100)
SecretMin == 1
SecretMax == 100

\* A u32 is held as two decimal limbs, value = hi * Limb + lo, so that no
\* intermediate number leaves the range of the checker's integers.
Limb == 100000

\* u32::MAX = 4294967295 = U32MaxHi * Limb + U32MaxLo
U32MaxHi == 42949
U32MaxLo == 67295

----------------------------------------------------------------------------
\* Text

DigitChars == <<"0", "1", "2", "3", "4", "5", "6", "7", "8", "9">>

IsDigit(c) == \E i \in 1..10 : DigitChars[i] = c

\* char::to_digit(10) of a decimal digit
DigitVal(c) == (CHOOSE i \in 1..10 : DigitChars[i] = c) - 1

\* char::is_whitespace, on the ASCII characters of the White_Space property
IsWhitespace(c) == c \in {" ", "\t", "\n", "\r", "\f"}

RECURSIVE TrimStart(_)
TrimStart(s) ==
    IF s = <<>> \/ ~IsWhitespace(Head(s)) THEN s ELSE TrimStart(Tail(s))

RECURSIVE TrimEnd(_)
TrimEnd(s) ==
    IF s = <<>> \/ ~IsWhitespace(s[Len(s)]) THEN s
    ELSE TrimEnd(SubSeq(s, 1, Len(s) - 1))

\* trim_end in place of trim
Trim_EndOnly(s) == TrimEnd(s)

\* str::trim
Trim(s) == TrimEnd(TrimStart(s))

\* Display for u32: decimal digits, no sign, no leading zeros
RECURSIVE Fmt(_)
Fmt(n) ==
    IF n < 10 THEN <<DigitChars[n + 1]>>
    ELSE Fmt(n \div 10) \o <<DigitChars[(n % 10) + 1]>>

\* Display for u32, on the two limbs
FmtU32(v) ==
    IF v.hi = 0 THEN Fmt(v.lo)
    ELSE Fmt(v.hi) \o SubSeq(Fmt(Limb + v.lo), 2, 6)

\* a small number as a u32
U32(n) == [hi |-> n \div Limb, lo |-> n % Limb]

\* v * 10 + d on the limbs, before the range check
MulTenAdd(v, d) ==
    [hi |-> v.hi * 10 + (v.lo * 10 + d) \div Limb,
     lo |-> (v.lo * 10 + d) % Limb]

\* the range check off by one limb: every value from 4294900000 refused
Overflows_Early(v) == v.hi >= U32MaxHi

\* the result of checked_mul(10) and checked_add(d) is None
Overflows(v) == v.hi > U32MaxHi \/ (v.hi = U32MaxHi /\ v.lo > U32MaxLo)

\* Ord::cmp on u32
U32Cmp(a, b) ==
    IF a.hi < b.hi \/ (a.hi = b.hi /\ a.lo < b.lo) THEN "Less"
    ELSE IF a.hi = b.hi /\ a.lo = b.lo THEN "Equal"
    ELSE "Greater"

ParseOk(v) == [ok |-> TRUE, num |-> v]
ParseErr == [ok |-> FALSE, num |-> U32(0)]

\* v reduced modulo 2^32, on the limbs
RECURSIVE WrapU32(_)
WrapU32(v) ==
    IF ~Overflows(v) THEN v
    ELSE WrapU32(IF v.lo > U32MaxLo
                 THEN [hi |-> v.hi - U32MaxHi, lo |-> v.lo - U32MaxLo - 1]
                 ELSE [hi |-> v.hi - U32MaxHi - 1,
                       lo |-> v.lo + Limb - U32MaxLo - 1])

\* the digit loop with wrapping_mul and wrapping_add
RECURSIVE ParseDigits_Wrapping(_, _)
ParseDigits_Wrapping(digits, acc) ==
    IF digits = <<>> THEN ParseOk(acc)
    ELSE IF ~IsDigit(Head(digits)) THEN ParseErr
    ELSE ParseDigits_Wrapping(Tail(digits),
                              WrapU32(MulTenAdd(acc, DigitVal(Head(digits)))))

\* the digit loop of u32::from_str: checked multiply by ten and checked add
\* (r, the new accumulator, is bound through a one-element set so that it
\* is computed once per digit)
RECURSIVE ParseDigits(_, _)
ParseDigits(digits, acc) ==
    IF digits = <<>> THEN ParseOk(acc)
    ELSE IF ~IsDigit(Head(digits)) THEN ParseErr
    ELSE CHOOSE res \in
            { IF Overflows(r) THEN ParseErr ELSE ParseDigits(Tail(digits), r) :
                 r \in {MulTenAdd(acc, DigitVal(Head(digits)))} } : TRUE

\* str::parse::<u32>: empty text and a lone sign are errors, one leading
\* "+" is dropped, a leading "-" is left to fail as a digit
ParseU32(src) ==
    IF src = <<>> THEN ParseErr
    ELSE IF Len(src) = 1 /\ src[1] \in {"+", "-"} THEN ParseErr
    ELSE ParseDigits(IF src[1] = "+" THEN Tail(src) ELSE src, U32(0))

----------------------------------------------------------------------------
\* Output lines

Banner == <<"Guess the number!">>
PromptLine == <<"Please input your guess.">>
EchoLine(v) == <<"You guessed: ">> \o FmtU32(v)
TooSmall == <<"Too small!">>
TooBig == <<"Too big!">>
YouWin == <<"You win!">>
PanicLine == <<"Failed to read line">>

----------------------------------------------------------------------------
\* Input the environment may supply to one read_line call

NL == <<"\n">>

\* lines that do not hold an unsigned integer
MalformedLines ==
    { <<"a", "b", "c">> \o NL,
      NL,
      <<"-", "5">> \o NL,
      <<"3", ".", "1", "4">> \o NL }

\* the decimal text of u32::MAX
U32MaxText == <<"4", "2", "9", "4", "9", "6", "7", "2", "9", "5">>

\* lines typed against secret s: a guess below it, the secret itself,
\* a guess above it, the secret with blanks around it and a CR LF ending,
\* a guess with a plus sign, the largest u32, and the malformed lines
InputLines(s) ==
    { Fmt(s - 1) \o NL, Fmt(s) \o NL, Fmt(s + 1) \o NL,
      <<" ">> \o Fmt(s) \o <<" ", "\r", "\n">>,
      <<"+", "7">> \o NL,
      U32MaxText \o NL }
    \cup MalformedLines

NoResult == [tag |-> "None", n |-> 0]
OkResult(k) == [tag |-> "Ok", n |-> k]
ErrResult == [tag |-> "Err", n |-> 0]

----------------------------------------------------------------------------
\* The program

Init ==
    /\ pc = "banner"
    /\ secret_number = 0
    /\ guess = <<>>
    /\ guess_num = U32(0)
    /\ read_result = NoResult
    /\ stdin_line = <<>>
    /\ lines_read = 0
    /\ lines_consumed = 0
    /\ stdout = <<>>
    /\ stderr = <<>>

\* println!("Guess the number!")
PrintBanner ==
    /\ pc = "banner"
    /\ stdout' = Append(stdout, Banner)
    /\ pc' = "draw"
    /\ UNCHANGED <<secret_number, guess, guess_num, read_result, stdin_line,
                   lines_read, lines_consumed, stderr>>

\* let secret_number = rand::thread_rng().gen_range(1..=100)
DrawSecret ==
    /\ pc = "draw"
    /\ \E n \in SecretMin..SecretMax : secret_number' = n
    /\ pc' = "prompt"
    /\ UNCHANGED <<guess, guess_num, read_result, stdin_line, lines_read,
                   lines_consumed, stdout, stderr>>

\* the draw placed inside the loop
PrintPrompt_Redraw ==
    /\ pc = "prompt"
    /\ stdout' = Append(stdout, PromptLine)
    /\ \E n \in SecretMin..SecretMax : secret_number' = n
    /\ pc' = "new_guess"
    /\ UNCHANGED <<guess, guess_num, read_result, stdin_line, lines_read,
                   lines_consumed, stderr>>

\* loop head: println!("Please input your guess.")
PrintPrompt ==
    /\ pc = "prompt"
    /\ stdout' = Append(stdout, PromptLine)
    /\ pc' = "new_guess"
    /\ UNCHANGED <<secret_number, guess, guess_num, read_result, stdin_line,
                   lines_read, lines_consumed, stderr>>

\* the buffer created once, before the loop
NewGuess_KeepsBuffer ==
    /\ pc = "new_guess"
    /\ pc' = "read_line"
    /\ UNCHANGED <<secret_number, guess, guess_num, read_result, stdin_line,
                   lines_read, lines_consumed, stdout, stderr>>

\* let mut guess = String::new()
NewGuess ==
    /\ pc = "new_guess"
    /\ guess' = <<>>
    /\ pc' = "read_line"
    /\ UNCHANGED <<secret_number, guess_num, read_result, stdin_line,
                   lines_read, lines_consumed, stdout, stderr>>

\* read_line returns Ok(n): a line was available; it is appended to guess
ReadLineOk ==
    /\ pc = "read_line"
    /\ lines_read < MaxReads
    /\ \E line \in InputLines(secret_number) :
          /\ guess' = guess \o line
          /\ stdin_line' = line
          /\ read_result' = OkResult(Len(line))
    /\ lines_read' = lines_read + 1
    /\ lines_consumed' = lines_consumed + 1
    /\ pc' = "parse"
    /\ UNCHANGED <<secret_number, guess_num, stdout, stderr>>

\* read_line returns Ok(0): end of input, nothing is appended;
\* expect returns the 0 and main goes on
ReadLineEof ==
    /\ pc = "read_line"
    /\ lines_read < MaxReads
    /\ guess' = guess
    /\ stdin_line' = <<>>
    /\ read_result' = OkResult(0)
    /\ lines_read' = lines_read + 1
    /\ lines_consumed' = lines_consumed
    /\ pc' = "parse"
    /\ UNCHANGED <<secret_number, guess_num, stdout, stderr>>

\* the Result of read_line dropped instead of passed to expect
ReadLineErr_Ignored ==
    /\ pc = "read_line"
    /\ lines_read < MaxReads
    /\ read_result' = ErrResult
    /\ stdin_line' = <<>>
    /\ lines_read' = lines_read + 1
    /\ lines_consumed' = lines_consumed
    /\ pc' = "parse"
    /\ UNCHANGED <<secret_number, guess, guess_num, stdout, stderr>>

\* read_line returns Err: expect("Failed to read line") panics
ReadLineErr ==
    /\ pc = "read_line"
    /\ lines_read < MaxReads
    /\ read_result' = ErrResult
    /\ stdin_line' = <<>>
    /\ lines_read' = lines_read + 1
    /\ lines_consumed' = lines_consumed
    /\ stderr' = Append(stderr, PanicLine)
    /\ pc' = "panicked"
    /\ UNCHANGED <<secret_number, guess, guess_num, stdout>>

\* match guess.trim().parse() { Ok(num) => num, ... }
ParseGuessOk ==
    /\ pc = "parse"
    /\ ParseU32(Trim(guess)).ok
    /\ guess_num' = ParseU32(Trim(guess)).num
    /\ pc' = "echo"
    /\ UNCHANGED <<secret_number, guess, read_result, stdin_line, lines_read,
                   lines_consumed, stdout, stderr>>

\* parse().expect(...) in place of the match: a malformed line panics
ParseGuessErr_Panics ==
    /\ pc = "parse"
    /\ ~ParseU32(Trim(guess)).ok
    /\ stderr' = Append(stderr, <<"Please type a number!">>)
    /\ pc' = "panicked"
    /\ UNCHANGED <<secret_number, guess, guess_num, read_result, stdin_line,
                   lines_read, lines_consumed, stdout>>

\* match guess.trim().parse() { ..., Err(_) => continue }
ParseGuessErr ==
    /\ pc = "parse"
    /\ ~ParseU32(Trim(guess)).ok
    /\ pc' = "prompt"
    /\ UNCHANGED <<secret_number, guess, guess_num, read_result, stdin_line,
                   lines_read, lines_consumed, stdout, stderr>>

\* the echo left out
PrintEcho_Silent ==
    /\ pc = "echo"
    /\ pc' = "cmp"
    /\ UNCHANGED <<secret_number, guess, guess_num, read_result, stdin_line,
                   lines_read, lines_consumed, stdout, stderr>>

\* println!("You guessed: {guess}")
PrintEcho ==
    /\ pc = "echo"
    /\ stdout' = Append(stdout, EchoLine(guess_num))
    /\ pc' = "cmp"
    /\ UNCHANGED <<secret_number, guess, guess_num, read_result, stdin_line,
                   lines_read, lines_consumed, stderr>>

\* the messages of the Less and Greater arms swapped
CompareLess_Swapped ==
    /\ pc = "cmp"
    /\ U32Cmp(guess_num, U32(secret_number)) = "Less"
    /\ stdout' = Append(stdout, TooBig)
    /\ pc' = "prompt"
    /\ UNCHANGED <<secret_number, guess, guess_num, read_result, stdin_line,
                   lines_read, lines_consumed, stderr>>

\* Ordering::Less => println!("Too small!")
CompareLess ==
    /\ pc = "cmp"
    /\ U32Cmp(guess_num, U32(secret_number)) = "Less"
    /\ stdout' = Append(stdout, TooSmall)
    /\ pc' = "prompt"
    /\ UNCHANGED <<secret_number, guess, guess_num, read_result, stdin_line,
                   lines_read, lines_consumed, stderr>>

\* the loop left after a guess that is too big
CompareGreater_GivesUp ==
    /\ pc = "cmp"
    /\ U32Cmp(guess_num, U32(secret_number)) = "Greater"
    /\ stdout' = Append(stdout, TooBig)
    /\ pc' = "done"
    /\ UNCHANGED <<secret_number, guess, guess_num, read_result, stdin_line,
                   lines_read, lines_consumed, stderr>>

\* Ordering::Greater => println!("Too big!")
CompareGreater ==
    /\ pc = "cmp"
    /\ U32Cmp(guess_num, U32(secret_number)) = "Greater"
    /\ stdout' = Append(stdout, TooBig)
    /\ pc' = "prompt"
    /\ UNCHANGED <<secret_number, guess, guess_num, read_result, stdin_line,
                   lines_read, lines_consumed, stderr>>

\* the break left out
CompareEqual_NoBreak ==
    /\ pc = "cmp"
    /\ U32Cmp(guess_num, U32(secret_number)) = "Equal"
    /\ stdout' = Append(stdout, YouWin)
    /\ pc' = "prompt"
    /\ UNCHANGED <<secret_number, guess, guess_num, read_result, stdin_line,
                   lines_read, lines_consumed, stderr>>

\* Ordering::Equal => { println!("You win!"); break; }
CompareEqual ==
    /\ pc = "cmp"
    /\ U32Cmp(guess_num, U32(secret_number)) = "Equal"
    /\ stdout' = Append(stdout, YouWin)
    /\ pc' = "done"
    /\ UNCHANGED <<secret_number, guess, guess_num, read_result, stdin_line,
                   lines_read, lines_consumed, stderr>>

Next ==
    \/ PrintBanner
    \/ DrawSecret
    \/ PrintPrompt
    \/ NewGuess
    \/ ReadLineOk
    \/ ReadLineEof
    \/ ReadLineErr
    \/ ParseGuessOk
    \/ ParseGuessErr
    \/ PrintEcho
    \/ CompareLess
    \/ CompareGreater
    \/ CompareEqual

Spec == Init /\ [][Next]_vars

\* The steps main takes by itself; a read waits for the environment.
ProgramStep ==
    \/ PrintBanner
    \/ DrawSecret
    \/ PrintPrompt
    \/ NewGuess
    \/ ParseGuessOk
    \/ ParseGuessErr
    \/ PrintEcho
    \/ CompareLess
    \/ CompareGreater
    \/ CompareEqual

\* number of read_line calls the environment answers in the runs checked
\* for progress
MaxLiveReads == 2

LiveRead ==
    /\ lines_read < MaxLiveReads
    /\ ReadLineOk \/ ReadLineEof \/ ReadLineErr

LiveNext == ProgramStep \/ LiveRead

\* main keeps running as long as it is not waiting in read_line
FairSpec == Init /\ [][LiveNext]_vars /\ WF_vars(ProgramStep)

----------------------------------------------------------------------------
\* One iteration on a wide set of lines: main right after its first
\* read_line has returned the line, run up to the next read.

\* the numbers 0..MaxSmall are tried as guesses, and the numbers
\* 2^32..2^32 + MaxSmall that a wrapping parse would turn into them
MaxSmall == 101

SmallTexts == {Fmt(n) : n \in 0..MaxSmall}

\* 4294967200 .. 4294967296 + MaxSmall: both sides of u32::MAX
EdgeTexts ==
    {<<"4", "2", "9", "4", "9", "6", "7">> \o Fmt(n) :
        n \in 200..((U32MaxLo % 1000) + 1 + MaxSmall)}

OtherTexts ==
    { <<"0", "0", "7">>,
      <<"0", "0", "0", "0", "0", "0", "0", "0", "0", "0", "4", "2">>,
      <<"0">> \o U32MaxText,
      <<"9", "9", "9", "9", "9">>,
      <<"1", "0", "0", "0", "0", "0">>,
      <<"1", "0", "0", "0", "0", "0", "0", "0", "0", "0", "0">>,
      <<"9", "9", "9", "9", "9", "9", "9", "9", "9", "9", "9">>,
      <<"+", "7">>, <<"+">>, <<"-", "0">>, <<"1", " ", "2">>,
      <<"a", "b", "c">>, <<"3", ".", "1", "4">> }

\* blanks typed before and after the number, and the ways a line ends:
\* LF, CR LF, and the last line of a stream with no terminator
Pads == { <<>>, <<" ">>, <<"\t">>, <<" ", "\t">> }
Endings == { <<"\n">>, <<"\r", "\n">>, <<>> }

PaddedTexts ==
    { <<"0">>, <<"7">>, <<"1", "0", "0">>, U32MaxText,
      <<"4", "2", "9", "4", "9", "6", "7", "2", "9", "6">>,
      <<"a", "b", "c">> }

ParseLines ==
    {t \o NL : t \in SmallTexts \cup EdgeTexts \cup OtherTexts}
    \cup {lead \o t \o trail \o end :
             lead \in Pads, t \in PaddedTexts, trail \in Pads, end \in Endings}

ParseInit ==
    /\ pc = "parse"
    /\ secret_number \in SecretMin..SecretMax
    /\ \E line \in ParseLines :
          /\ guess = line
          /\ stdin_line = line
          /\ read_result = OkResult(Len(line))
    /\ guess_num = U32(0)
    /\ lines_read = 1
    /\ lines_consumed = 1
    /\ stdout = <<Banner, PromptLine>>
    /\ stderr = <<>>

ParseNext ==
    \/ ParseGuessOk
    \/ ParseGuessErr
    \/ PrintEcho
    \/ CompareLess
    \/ CompareGreater
    \/ CompareEqual
    \/ PrintPrompt
    \/ NewGuess

ParseSpec == ParseInit /\ [][ParseNext]_vars

----------------------------------------------------------------------------
\* Vocabulary of the properties: what a line of input denotes, read off its
\* text without the parser, and what one iteration has printed.

\* the text is one or more decimal digits
AllDigits(t) == t # <<>> /\ \A i \in 1..Len(t) : IsDigit(t[i])

RECURSIVE StripZeros(_)
StripZeros(t) == IF Len(t) > 1 /\ Head(t) = "0" THEN StripZeros(Tail(t)) ELSE t

\* the number written by at most nine digits
RECURSIVE SmallValue(_)
SmallValue(t) ==
    IF t = <<>> THEN 0
    ELSE SmallValue(SubSeq(t, 1, Len(t) - 1)) * 10 + DigitVal(t[Len(t)])

\* a before b in dictionary order, or equal, for texts of the same length
RECURSIVE LexLeq(_, _)
LexLeq(a, b) ==
    IF a = <<>> THEN TRUE
    ELSE IF DigitVal(Head(a)) # DigitVal(Head(b))
         THEN DigitVal(Head(a)) < DigitVal(Head(b))
         ELSE LexLeq(Tail(a), Tail(b))

\* the digits write a number of at most 4294967295
InU32Range(t) ==
    LET z == StripZeros(t)
    IN  Len(z) < 10 \/ (Len(z) = 10 /\ LexLeq(z, U32MaxText))

\* how the number written by the digits t compares with s, 1 <= s <= 100
DigitsVersus(t, s) ==
    LET z == StripZeros(t)
    IN  IF Len(z) > 3 THEN "Greater"
        ELSE IF SmallValue(z) < s THEN "Less"
        ELSE IF SmallValue(z) = s THEN "Equal"
        ELSE "Greater"

\* the last read_line call returned a line (not end of input, not an error)
LineWasRead == read_result.tag = "Ok" /\ read_result.n > 0

\* the line read last trims to a valid integer that is o the secret
ValidLine(o) ==
    /\ LineWasRead
    /\ AllDigits(Trim(stdin_line))
    /\ InU32Range(Trim(stdin_line))
    /\ DigitsVersus(Trim(stdin_line), secret_number) = o

\* the echo of the number written by the line read last
EchoOfLine == <<"You guessed: ">> \o StripZeros(Trim(stdin_line))

EndsWith(seq, tail) ==
    /\ Len(seq) >= Len(tail)
    /\ SubSeq(seq, Len(seq) - Len(tail) + 1, Len(seq)) = tail

\* The iteration of the line read last is over and the loop has started
\* again: since its prompt, that iteration printed exactly the lines out.
IterationPrinted(out) ==
    /\ pc = "prompt" => EndsWith(stdout, <<PromptLine>> \o out)
    /\ pc \in {"new_guess", "read_line"} =>
          EndsWith(stdout, <<PromptLine>> \o out \o <<PromptLine>>)

\* main is inside the loop
Playing == pc \in {"prompt", "new_guess", "read_line", "parse", "echo", "cmp"}

----------------------------------------------------------------------------
\* C1: a line that trims to a valid integer equal to the secret makes its
\* iteration print the echo and "You win!" and ends the program normally in
\* that iteration: main never returns to the loop head, and once it has
\* returned from main nothing more is printed or read.
C1_WinTerminates ==
    /\ ValidLine("Equal") =>
          /\ pc \in {"parse", "echo", "cmp", "done"}
          /\ pc = "parse" => stdout[Len(stdout)] = PromptLine
          /\ pc = "cmp" => EndsWith(stdout, <<PromptLine, EchoOfLine>>)
          /\ pc = "done" =>
                EndsWith(stdout, <<PromptLine, EchoOfLine, YouWin>>)
    /\ pc = "done" => stderr = <<>> /\ ~ENABLED Next

C1_Witness ==
    /\ pc = "done"
    /\ ValidLine("Equal")
    /\ lines_read = 3
    /\ Len(Trim(stdin_line)) < Len(stdin_line) - 1

\* C3: a line that does not trim to a non-negative integer (digits, with or
\* without a plus sign) prints nothing in its iteration, neither echo nor
\* outcome nor error text; main stays in the loop and the next line printed
\* is the prompt.
NonNegativeInteger(t) ==
    AllDigits(IF t # <<>> /\ Head(t) = "+" THEN Tail(t) ELSE t)

MalformedLine == LineWasRead /\ ~NonNegativeInteger(Trim(stdin_line))

C3_MalformedSilent ==
    MalformedLine =>
        /\ pc \in {"parse", "prompt", "new_guess", "read_line"}
        /\ pc = "parse" => stdout[Len(stdout)] = PromptLine
        /\ IterationPrinted(<<>>)
        /\ stderr = <<>>

C3_Witness ==
    /\ MalformedLine
    /\ pc = "new_guess"
    /\ stdin_line = <<"-", "5">> \o NL
    /\ lines_read = 2

\* C4: a line that trims to a valid integer below the secret makes its
\* iteration print the echo and then "Too small!" and nothing else; main
\* does not exit and is next at the prompt.
C4_TooSmall ==
    ValidLine("Less") =>
        /\ Playing
        /\ pc = "parse" => stdout[Len(stdout)] = PromptLine
        /\ pc = "cmp" => EndsWith(stdout, <<PromptLine, EchoOfLine>>)
        /\ IterationPrinted(<<EchoOfLine, TooSmall>>)
        /\ pc = "prompt" => ENABLED PrintPrompt

C4_Witness ==
    /\ ValidLine("Less")
    /\ pc = "new_guess"
    /\ secret_number = SecretMax
    /\ lines_read = 2

\* C5: a line that trims to a valid integer above the secret makes its
\* iteration print the echo and then "Too big!" and nothing else; main does
\* not exit and is next at the prompt.
C5_TooBig ==
    ValidLine("Greater") =>
        /\ Playing
        /\ pc = "parse" => stdout[Len(stdout)] = PromptLine
        /\ pc = "cmp" => EndsWith(stdout, <<PromptLine, EchoOfLine>>)
        /\ IterationPrinted(<<EchoOfLine, TooBig>>)
        /\ pc = "prompt" => ENABLED PrintPrompt

C5_Witness ==
    /\ ValidLine("Greater")
    /\ pc = "new_guess"
    /\ stdin_line = U32MaxText \o NL
    /\ secret_number = SecretMax
    /\ lines_read = 2

\* C2: after a read at end of input (read_line returned Ok(0)) the program
\* does not go back to the prompt or to another read.
EofWasRead == read_result.tag = "Ok" /\ read_result.n = 0

C2_EofIsFatal ==
    EofWasRead => pc \notin {"prompt", "new_guess", "read_line"}

\* C6: standard output starts with the banner, printed once; the line after
\* it is a prompt; an echo directly follows a prompt and is directly
\* followed by one outcome line; an outcome line directly follows an echo;
\* nothing else is printed.  The echo shows the accepted guess.
IsEcho(l) == l[1] = "You guessed: "
IsOutcome(l) == l \in {TooSmall, TooBig, YouWin}

C6_OutputShape ==
    /\ pc # "banner" => stdout # <<>> /\ stdout[1] = Banner
    /\ pc = "banner" => stdout = <<>>
    /\ Len(stdout) >= 2 => stdout[2] = PromptLine
    /\ \A i \in 2..Len(stdout) :
          /\ stdout[i] # Banner
          /\ stdout[i] = PromptLine \/ IsEcho(stdout[i]) \/ IsOutcome(stdout[i])
          /\ IsEcho(stdout[i]) =>
                /\ stdout[i - 1] = PromptLine
                /\ i < Len(stdout) => IsOutcome(stdout[i + 1])
                /\ i = Len(stdout) =>
                      pc = "cmp" /\ stdout[i] = EchoLine(guess_num)
          /\ IsOutcome(stdout[i]) => IsEcho(stdout[i - 1])
    /\ pc = "cmp" /\ AllDigits(Trim(stdin_line)) =>
          stdout[Len(stdout)] = EchoOfLine

C6_Witness ==
    /\ pc = "done"
    /\ Len(stdout) = 10
    /\ stdout[4] = TooSmall
    /\ stdout[7] = TooBig
    /\ stdout[10] = YouWin

\* C7: once drawn, the secret lies in 1..100 and no step changes it.
SecretDrawn == pc \notin {"banner", "draw"}

C7_SecretFixed ==
    /\ [](SecretDrawn => secret_number >= 1 /\ secret_number <= 100)
    /\ [][SecretDrawn => secret_number' = secret_number]_vars

C7_Witness ==
    /\ secret_number = 100
    /\ pc = "cmp"
    /\ lines_read = 3
    /\ Len(stdout) = 7

\* C8: every prompt is the same text, and what a valid line gets echoed and
\* answered depends on that line alone: the text parsed is the line just
\* read, whatever lines came before it, and the iteration prints the echo
\* of its number and the outcome of its number.
OutcomeOfLine ==
    LET o == DigitsVersus(Trim(stdin_line), secret_number)
    IN  IF o = "Less" THEN TooSmall ELSE IF o = "Greater" THEN TooBig
        ELSE YouWin

AnyValidLine ==
    /\ LineWasRead
    /\ AllDigits(Trim(stdin_line))
    /\ InU32Range(Trim(stdin_line))

C8_NoCarryOver ==
    /\ [](/\ pc \in {"parse", "echo", "cmp"} /\ LineWasRead =>
                guess = stdin_line
          /\ AnyValidLine =>
                /\ pc = "parse" => stdout[Len(stdout)] = PromptLine
                /\ pc = "cmp" => EndsWith(stdout, <<PromptLine, EchoOfLine>>)
                /\ IterationPrinted(<<EchoOfLine, OutcomeOfLine>>)
                /\ pc = "done" =>
                      EndsWith(stdout, <<PromptLine, EchoOfLine, YouWin>>))
    /\ [][pc = "prompt" => stdout' = Append(stdout, PromptLine)]_vars

C8_Witness ==
    /\ AnyValidLine
    /\ pc = "prompt"
    /\ lines_read = 3
    /\ Len(stdout) = 6
    /\ stdout[3] = PromptLine
    /\ stdout[4] = PromptLine

\* C9: a read that fails ends the program at once with the failure message:
\* the last line on standard output is the prompt of that iteration, nothing
\* runs afterwards, and nothing else ends the program this way.
C9_ReadErrorFatal ==
    /\ read_result.tag = "Err" =>
          /\ pc = "panicked"
          /\ stderr = <<PanicLine>>
          /\ stdout[Len(stdout)] = PromptLine
          /\ ~ENABLED Next
    /\ pc = "panicked" => read_result.tag = "Err"

C9_Witness ==
    /\ pc = "panicked"
    /\ lines_read = 3
    /\ Len(stdout) = 6

\* C10: main is in the loop until it has won or a read has failed; it has
\* won only with an accepted guess equal to the secret, echoed and answered
\* "You win!"; while it is in the loop it can always take a step, and a
\* pending read accepts a line, as long as the environment supplies input.
InputAvailable == lines_read < MaxReads

C10_StateMachine ==
    /\ pc \in {"banner", "draw", "done", "panicked"} \/ Playing
    /\ SecretDrawn /\ read_result.tag # "Err" => Playing \/ pc = "done"
    /\ pc = "panicked" => read_result.tag = "Err"
    /\ pc = "done" =>
          /\ guess_num = U32(secret_number)
          /\ EndsWith(stdout, <<EchoLine(U32(secret_number)), YouWin>>)
          /\ AllDigits(Trim(stdin_line)) =>
                DigitsVersus(Trim(stdin_line), secret_number) = "Equal"
    /\ Playing /\ pc # "parse" /\ (pc = "read_line" => InputAvailable) =>
          ENABLED Next
    /\ pc = "parse" => ParseU32(Trim(guess)).ok \in BOOLEAN
    /\ pc = "read_line" /\ InputAvailable => ENABLED ReadLineOk

C10_Witness ==
    /\ pc = "prompt"
    /\ lines_read = 3
    /\ secret_number = 1
    /\ Len(stdout) = 8
    /\ stderr = <<>>

\* C11: every iteration takes exactly one line off standard input: the
\* number of lines consumed equals the number of prompts printed, or is one
\* less while the read of the current iteration has not delivered a line.
NumPrompts == Cardinality({i \in 1..Len(stdout) : stdout[i] = PromptLine})

C11_OneLinePerIteration ==
    \/ lines_consumed = NumPrompts
    \/ /\ lines_consumed = NumPrompts - 1
       /\ pc \in {"new_guess", "read_line", "panicked"}

\* C12: a line that trims to digits writing a number of at most 4294967295
\* is accepted with that very number: the echo shows it and the outcome is
\* that of its true magnitude.  Digits writing a larger number are a parse
\* error: nothing is printed and the loop starts again; the number is never
\* taken modulo 2^32.
C12_U32Range ==
    LineWasRead /\ AllDigits(Trim(stdin_line)) =>
        IF InU32Range(Trim(stdin_line))
        THEN /\ pc \in {"echo", "cmp"} =>
                   FmtU32(guess_num) = StripZeros(Trim(stdin_line))
             /\ pc = "cmp" => EndsWith(stdout, <<PromptLine, EchoOfLine>>)
             /\ IterationPrinted(<<EchoOfLine, OutcomeOfLine>>)
             /\ pc = "done" =>
                   /\ EndsWith(stdout, <<PromptLine, EchoOfLine, YouWin>>)
                   /\ OutcomeOfLine = YouWin
        ELSE /\ pc \in {"parse", "prompt", "new_guess", "read_line"}
             /\ IterationPrinted(<<>>)
             /\ stderr = <<>>

\* the line 4294967338 = 2^32 + 42 against the secret 42
C12_Witness ==
    /\ pc = "new_guess"
    /\ secret_number = 42
    /\ stdin_line =
          <<"4", "2", "9", "4", "9", "6", "7", "3", "3", "8">> \o NL
    /\ stdout = <<Banner, PromptLine, PromptLine>>

\* C13: a line made of blanks (space, tab, CR, LF), then digits, then blanks
\* is handled as its digits alone: the parsed guess, the echo and the
\* outcome are those of the number, whatever the blanks and the line ending.
Blank(c) == c \in {" ", "\t", "\r", "\n"}

PaddedNumber(line) ==
    \E i, j \in 1..Len(line) :
        /\ i <= j
        /\ \A k \in 1..Len(line) :
              IF k < i \/ k > j THEN Blank(line[k]) ELSE IsDigit(line[k])

DigitsOf(line) == SelectSeq(line, IsDigit)

OutcomeOfDigits ==
    LET o == DigitsVersus(DigitsOf(stdin_line), secret_number)
    IN  IF o = "Less" THEN TooSmall ELSE IF o = "Greater" THEN TooBig
        ELSE YouWin

EchoOfDigits == <<"You guessed: ">> \o StripZeros(DigitsOf(stdin_line))

C13_TrimIndependent ==
    /\ LineWasRead
    /\ PaddedNumber(stdin_line)
    /\ InU32Range(DigitsOf(stdin_line))
    => /\ pc \in {"echo", "cmp"} =>
             FmtU32(guess_num) = StripZeros(DigitsOf(stdin_line))
       /\ pc = "cmp" => EndsWith(stdout, <<PromptLine, EchoOfDigits>>)
       /\ IterationPrinted(<<EchoOfDigits, OutcomeOfDigits>>)
       /\ pc = "done" =>
             /\ EndsWith(stdout, <<PromptLine, EchoOfDigits, YouWin>>)
             /\ OutcomeOfDigits = YouWin

C13_Witness ==
    /\ pc = "done"
    /\ secret_number = 100
    /\ stdin_line = <<" ", "\t", "1", "0", "0", "\t", "\r", "\n">>

\* C15: the guess 0 is accepted and always answered "Too small!", a guess
\* above 100 is accepted and always answered "Too big!", and the program
\* has won only with a guess in 1..100.
C15_OutOfRangeNeverWins ==
    /\ pc = "done" =>
          guess_num.hi = 0 /\ guess_num.lo >= 1 /\ guess_num.lo <= 100
    /\ LineWasRead /\ AllDigits(Trim(stdin_line))
          /\ InU32Range(Trim(stdin_line)) =>
          LET z == StripZeros(Trim(stdin_line))
          IN  /\ z = <<"0">> =>
                    /\ Playing
                    /\ pc = "cmp" => stdout[Len(stdout)] = EchoOfLine
                    /\ IterationPrinted(<<EchoOfLine, TooSmall>>)
              /\ (Len(z) > 3 \/ SmallValue(z) > 100) =>
                    /\ Playing
                    /\ pc = "cmp" => stdout[Len(stdout)] = EchoOfLine
                    /\ IterationPrinted(<<EchoOfLine, TooBig>>)

C15_Witness ==
    /\ pc = "prompt"
    /\ secret_number = 1
    /\ Trim(stdin_line) = <<"0">>
    /\ stdout[Len(stdout)] = TooSmall

\* C14: once a line that trims to the secret has been read, the program
\* eventually prints "You win!" and ends; it does so at the first such
\* line; "You win!" is printed at most once, is the last line printed, and
\* is there exactly when the program has ended normally.
WinningLineRead == ValidLine("Equal") /\ pc = "parse"

Won == pc = "done" /\ stdout[Len(stdout)] = YouWin

C14_WinLiveness ==
    /\ [](/\ \A i \in 1..Len(stdout) :
                stdout[i] = YouWin => i = Len(stdout) /\ pc = "done"
          /\ pc = "done" => stdout[Len(stdout)] = YouWin
          /\ ValidLine("Equal") => pc \in {"parse", "echo", "cmp", "done"})
    /\ (WinningLineRead ~> Won)

C14_Witness ==
    /\ Won
    /\ ValidLine("Equal")
    /\ lines_read = 2
    /\ lines_consumed = 2
    /\ Len(stdout) = 7

====
